---- MODULE Spec2Model ----
(***************************************************************************)
(* Model of the IoT remote lab server: the in-memory device store behind   *)
(* a reader/writer lock, the device registry service that builds devices,  *)
(* and the PlatformIO runner that spawns the toolchain as a subprocess.    *)
(***************************************************************************)
EXTENDS Naturals, Sequences, FiniteSets, TLC

(***************************************************************************)
(* Bounds of the model.                                                    *)
(***************************************************************************)
\* Number of concurrently scheduled caller tasks of the device service.
NumTasks == 2
\* Number of distinct identifiers Uuid::new_v4 can hand out in a run.
MaxDevices == 2
\* Longest captured stdout / stderr of a subprocess, in bytes.
MaxOut == 2

Tasks == 1..NumTasks
Ids == 1..MaxDevices
NoTask == 0

(***************************************************************************)
(* Option<T>: None is the empty tuple, Some(x) the one-element tuple.      *)
(***************************************************************************)
None == <<>>
Some(x) == <<x>>
IsSome(o) == Len(o) = 1
\* A field of a record whose write has begun but not finished.
Uninit == <<"uninit", "uninit">>

Names == {"n1", "n2"}
BoardIds == {"", "b1"}
BoardTypes == {"esp32dev"}
ProjectPaths == {"/lab/p1"}
OptBoardTypes == {None} \cup {Some(b) : b \in BoardTypes}
OptProjectPaths == {None} \cup {Some(p) : p \in ProjectPaths}

(***************************************************************************)
(* domain::Device                                                          *)
(***************************************************************************)
\* Device::new: a bare device; board_id is the empty string.
DeviceNew(id, name) ==
  [id |-> id, name |-> name, board_id |-> "",
   board_type |-> None, project_path |-> None]

\* Device::with_esp32_config: a toolchain-configured device.
DeviceWithEsp32Config(id, name, board_id, board_type, project_path) ==
  [id |-> id, name |-> name, board_id |-> board_id,
   board_type |-> Some(board_type), project_path |-> Some(project_path)]

\* Faulty variant: the device is configured as soon as either value is supplied, the
\* missing one defaulting to the empty string.
ServiceBuildDeviceEither(id, name, board_id, board_type, project_path) ==
  IF IsSome(board_type) \/ IsSome(project_path)
    THEN DeviceWithEsp32Config(id, name, board_id,
                               IF IsSome(board_type) THEN board_type[1] ELSE "",
                               IF IsSome(project_path) THEN project_path[1] ELSE "")
    ELSE DeviceNew(id, name)

\* Faulty variant: the optional values are stored as they were supplied.
ServiceBuildDeviceKeepGiven(id, name, board_id, board_type, project_path) ==
  [id |-> id, name |-> name, board_id |-> board_id,
   board_type |-> board_type, project_path |-> project_path]

\* Faulty variant: a bare device keeps the board_id the caller supplied.
ServiceBuildDeviceBareKeepsBoard(id, name, board_id, board_type, project_path) ==
  IF IsSome(board_type) /\ IsSome(project_path)
    THEN DeviceWithEsp32Config(id, name, board_id, board_type[1], project_path[1])
    ELSE [DeviceNew(id, name) EXCEPT !.board_id = board_id]

\* The device DeviceService::create builds before it hands it to the store.
ServiceBuildDevice(id, name, board_id, board_type, project_path) ==
  IF IsSome(board_type) /\ IsSome(project_path)
    THEN DeviceWithEsp32Config(id, name, board_id, board_type[1], project_path[1])
    ELSE DeviceNew(id, name)

(***************************************************************************)
(* HashMap<Uuid, Device>: a function from identifiers to Option<Device>.   *)
(***************************************************************************)
EmptyMap == [i \in Ids |-> None]

\* Faulty variant: the stored copy keeps the id and the name only.
MapInsertBare(m, d) == [m EXCEPT ![d.id] = Some(DeviceNew(d.id, d.name))]

\* HashMap::insert: the slot keyed by the device's id holds the device.
MapInsert(m, d) == [m EXCEPT ![d.id] = Some(d)]

\* Faulty variant: a missing key yields a default device.
MapGetOrDefault(m, id) == IF m[id] = None THEN Some(DeviceNew(id, "")) ELSE m[id]

\* HashMap::get(..).cloned()
MapGet(m, id) == m[id]

\* A record of which only the leading fields have been written.
Torn(d) == [d EXCEPT !.board_type = Uninit, !.project_path = Uninit]

\* Faulty variant: only the first value found is kept.
CollectSlotFirstOnly(acc, m, i) ==
  IF m[i] = None \/ acc # <<>> THEN acc ELSE Append(acc, m[i][1])

\* One step of values().cloned().collect(): the slot's device, if any, is pushed.
CollectSlot(acc, m, i) == IF m[i] = None THEN acc ELSE Append(acc, m[i][1])

Range(s) == {s[k] : k \in 1..Len(s)}

(***************************************************************************)
(* Results: anyhow::Result<T>                                              *)
(***************************************************************************)
Ok(v) == [ok |-> TRUE, val |-> v, err |-> <<>>]
Err(e) == [ok |-> FALSE, val |-> <<>>, err |-> e]
NoRet == [ok |-> FALSE, val |-> <<>>, err |-> <<"pending">>]

VARIABLES
  store,      \* the shared HashMap behind the RwLock
  wlock,      \* the task holding the write guard, or NoTask
  rlock,      \* the tasks holding a read guard
  issued,     \* identifiers Uuid::new_v4 has returned so far
  pc,         \* each task's position
  req,        \* each task's call arguments
  dev,        \* create: the device built by the service (local)
  snap,       \* create: the table as the insert found it (local)
  cursor,     \* list: the next slot of the iteration (local)
  acc,        \* list: the vector collected so far (local)
  seen,       \* history: how many creates had returned when the call began
  committed,  \* history: the devices create has returned, in order
  last,       \* the call that returned in the step just taken: arguments, seen, result
  fs,         \* the filesystem: the directories that exist, the paths the toolchain wrote
  run,        \* runner: what each toolchain operation in progress has done so far
  heap,       \* memory: the Device value at each address, or None where none lives
  table,      \* the HashMap as memory holds it: the address of each key's value
  held,       \* the values a caller of the repository owns, in the order received
  waitq       \* the tasks queued for the lock, first come first

storeVars == <<store, wlock, rlock, issued, pc, req, dev, snap, cursor, acc, seen, committed, last>>
runnerVars == <<fs, run>>
memVars == <<heap, table, held>>

NoReq == [op |-> "none"]
NoDev == DeviceNew(0, "")
\* A toolchain operation before it has done anything: no probe, no subprocess.
NoRun == [probe |-> "none", spawned |-> <<>>, fs0 |-> <<>>,
          exit |-> <<>>, stdout |-> <<>>, stderr |-> <<>>]
\* No HTTP response: the call was not made by a handler.
NoResp == [status |-> 0, success |-> FALSE, output |-> <<>>, error |-> <<>>]
NoCall == [op |-> "none", req |-> NoReq, seen |-> 0, ret |-> NoRet, run |-> NoRun,
           http |-> NoResp]

Returned == Range(committed)
\* The devices create had returned when n creates had returned.
ReturnedBy(n) == {committed[k] : k \in 1..n}

(***************************************************************************)
(* tokio::sync::RwLock: a writer excludes everyone, readers share.         *)
(***************************************************************************)
\* Faulty variant: a writer does not wait for another writer.
CanWriteUnguarded(t) == rlock = {}
\* Faulty variant: a reader does not wait for a writer.
CanReadUnguarded(t) == TRUE

\* Faulty variant: a task takes a free lock whoever is queued for it.
AtHeadBarging(t) == TRUE

\* The lock serves the tasks queued for it first come first: a task gets a
\* guard only if none is queued or it is the first of the queue.
AtHead(t) == IF waitq = <<>> THEN TRUE ELSE Head(waitq) = t
\* The queue once t has its guard.
Dequeue(q, t) == SelectSeq(q, LAMBDA u : u # t)

\* write().await returns once no guard is held.
CanWrite(t) == wlock = NoTask /\ rlock = {} /\ AtHead(t)
\* read().await returns once no write guard is held.
CanRead(t) == wlock = NoTask /\ AtHead(t)

\* Uuid::new_v4: an identifier no earlier call has returned. Identifiers are
\* interchangeable, so the next unused one stands for any fresh value.
NewUuid == CHOOSE id \in Ids \ issued : \A j \in Ids \ issued : id <= j

\* The arguments callers pass to DeviceService::create.
CreateInputs == Names \X BoardIds \X OptBoardTypes \X OptProjectPaths
\* The arguments of the concurrent callers: a bare and a configured device.
ConcurrentInputs ==
  {<<"n1", "b1", None, None>>, <<"n2", "b1", Some("esp32dev"), Some("/lab/p1")>>}

(***************************************************************************)
(* Values in memory: what Clone, a move into the map and a drop do.        *)
(***************************************************************************)
\* A caller keeps the device of its latest create or find_by_id and the vector
\* of its latest list.
MaxHeld == MaxDevices + 1
\* Room for every value of the map, every value the caller keeps and the
\* clone an insert is about to move into the map.
Addrs == 1..(MaxDevices + MaxHeld + 1)
NoAddr == 0
\* The bucket of the map that holds the value of key id.
BucketOf(id) == id
\* The addresses outside the map where nothing lives.
FreeAddrs(h) == {a \in Addrs \ {BucketOf(i) : i \in Ids} : h[a] = None}
\* The allocator: the lowest address where nothing lives.
Alloc(h) == CHOOSE a \in FreeAddrs(h) : \A b \in FreeAddrs(h) : a <= b

\* Faulty variant: the copy is the original itself.
CloneShared(h, a) == [addr |-> a, heap |-> h]

\* Device::clone (derived): a new value, equal to the one at a, at its own address.
Clone(h, a) == [addr |-> Alloc(h), heap |-> [h EXCEPT ![Alloc(h)] = h[a]]]

\* values().cloned().collect(): a clone of each value from slot i on, in order.
RECURSIVE CloneValues(_, _, _)
CloneValues(h, tb, i) ==
  IF i > MaxDevices THEN [addrs |-> <<>>, heap |-> h]
  ELSE IF tb[i] = NoAddr THEN CloneValues(h, tb, i + 1)
  ELSE LET c == Clone(h, tb[i])
           r == CloneValues(c.heap, tb, i + 1)
       IN [addrs |-> <<c.addr>> \o r.addrs, heap |-> r.heap]

\* Faulty variant: a bucket in use keeps its value and the new one is dropped.
BucketPutIfEmpty(h, b, a) ==
  IF h[b] = None THEN [h EXCEPT ![b] = h[a], ![a] = None] ELSE [h EXCEPT ![a] = None]

\* HashMap::insert moves the value at a into bucket b; the value the bucket
\* held, if any, is dropped.
BucketPut(h, b, a) == [h EXCEPT ![b] = h[a], ![a] = None]

\* The devices a caller hands to the repository: any identifier, any name.
RepoDevices == {DeviceNew(id, n) : id \in Ids, n \in Names}

InitStore ==
  /\ store = EmptyMap
  /\ wlock = NoTask
  /\ rlock = {}
  /\ issued = {}
  /\ pc = [t \in Tasks |-> "idle"]
  /\ req = [t \in Tasks |-> NoReq]
  /\ dev = [t \in Tasks |-> NoDev]
  /\ snap = [t \in Tasks |-> EmptyMap]
  /\ cursor = [t \in Tasks |-> 0]
  /\ acc = [t \in Tasks |-> <<>>]
  /\ seen = [t \in Tasks |-> 0]
  /\ committed = <<>>
  /\ last = NoCall
  /\ run = [t \in Tasks |-> NoRun]
  /\ heap = [a \in Addrs |-> None]
  /\ table = [i \in Ids |-> NoAddr]
  /\ held = <<>>
  /\ waitq = <<>>

(***************************************************************************)
(* handlers::esp32_handler: the response a handler builds.                 *)
(***************************************************************************)
Routes == {"build", "upload", "init", "clean", "create-main"}
\* format!("Build failed: {}", e) and its like.
FailurePrefix(route) ==
  CASE route = "build" -> "Build failed: "
    [] route = "upload" -> "Upload failed: "
    [] route = "init" -> "Project initialization failed: "
    [] route = "clean" -> "Clean failed: "
    [] route = "create-main" -> "Failed to create main file: "
\* (StatusCode, Json(CommandResponse { success: false, output: "", error }))
Rejected(status, message) ==
  [status |-> status, success |-> FALSE, output |-> <<>>, error |-> Some(message)]
\* The match on the result of the PlatformIOService call.
CommandResponse(route, r) ==
  IF r.ok
    THEN [status |-> 200, success |-> TRUE,
          output |-> IF route = "create-main"
                       THEN <<"Basic main.cpp created successfully">> ELSE r.val,
          error |-> None]
    ELSE Rejected(500, <<FailurePrefix(route)>> \o r.err)
\* What the handler that made the call q answers when the call returns r.
HandlerResponse(q, r) ==
  IF "http" \in DOMAIN q THEN CommandResponse(q.http.route, r) ELSE NoResp

\* The call of task t returns r to its caller, having done h; the task is free
\* for the next call. A handler that made the call answers at once.
Return(t, r, h) ==
  /\ last' = [op |-> req[t].op, req |-> req[t], seen |-> seen[t], ret |-> r, run |-> h,
              http |-> HandlerResponse(req[t], r)]
  /\ pc' = [pc EXCEPT ![t] = "idle"]
  /\ req' = [req EXCEPT ![t] = NoReq]
  /\ seen' = [seen EXCEPT ![t] = 0]

\* A call of the device service returns r.
Finish(t, r) == Return(t, r, NoRun)

(***************************************************************************)
(* DeviceService::create -> InMemoryDeviceRepository::create               *)
(***************************************************************************)
\* The service builds the device (with a fresh id) and calls the store.
ServiceCreate(t, inputs) ==
  /\ pc[t] = "idle"
  /\ issued # Ids
  /\ \E in \in inputs :
       /\ req' = [req EXCEPT ![t] = [op |-> "create", name |-> in[1], board_id |-> in[2],
                                     board_type |-> in[3], project_path |-> in[4]]]
       /\ dev' = [dev EXCEPT ![t] = ServiceBuildDevice(NewUuid, in[1], in[2], in[3], in[4])]
  /\ issued' = issued \cup {NewUuid}
  /\ pc' = [pc EXCEPT ![t] = "create_wait"]
  /\ seen' = [seen EXCEPT ![t] = 0]
  /\ last' = NoCall
  /\ UNCHANGED <<store, wlock, rlock, snap, cursor, acc, committed, fs, run>>
  /\ UNCHANGED <<memVars, waitq>>

\* self.store.write().await returns the write guard and w.insert(..) begins:
\* the table is read and the slot is being written.
RepoCreateInsertBegin(t) ==
  /\ pc[t] = "create_wait"
  /\ CanWrite(t)
  /\ wlock' = t
  /\ snap' = [snap EXCEPT ![t] = store]
  /\ store' = [store EXCEPT ![dev[t].id] = Some(Torn(dev[t]))]
  /\ pc' = [pc EXCEPT ![t] = "create_insert"]
  /\ last' = NoCall
  /\ UNCHANGED <<rlock, issued, req, dev, cursor, acc, seen, committed, fs, run>>
  /\ waitq' = Dequeue(waitq, t)
  /\ UNCHANGED memVars

\* w.insert(..) ends, the write guard is dropped and Ok(device) is returned.
RepoCreateInsertEnd(t) ==
  /\ pc[t] = "create_insert"
  /\ store' = MapInsert(snap[t], dev[t])
  /\ wlock' = IF wlock = t THEN NoTask ELSE wlock
  /\ committed' = Append(committed, dev[t])
  /\ dev' = [dev EXCEPT ![t] = NoDev]
  /\ snap' = [snap EXCEPT ![t] = EmptyMap]
  /\ Finish(t, Ok(dev[t]))
  /\ UNCHANGED <<rlock, issued, cursor, acc, fs, run>>
  /\ UNCHANGED <<memVars, waitq>>

(***************************************************************************)
(* DeviceService::get -> InMemoryDeviceRepository::find_by_id              *)
(***************************************************************************)
ServiceGet(t) ==
  /\ pc[t] = "idle"
  /\ \E id \in Ids : req' = [req EXCEPT ![t] = [op |-> "get", id |-> id]]
  /\ pc' = [pc EXCEPT ![t] = "get_wait"]
  /\ seen' = [seen EXCEPT ![t] = Len(committed)]
  /\ last' = NoCall
  /\ UNCHANGED <<store, wlock, rlock, issued, dev, snap, cursor, acc, committed, fs, run>>
  /\ UNCHANGED <<memVars, waitq>>

\* self.store.read().await returns the read guard, Ok(r.get(&id).cloned()) is
\* returned and the guard is dropped. Nothing is awaited in between.
RepoFindById(t) ==
  /\ pc[t] = "get_wait"
  /\ CanRead(t)
  /\ Finish(t, Ok(MapGet(store, req[t].id)))
  /\ UNCHANGED <<store, wlock, rlock, issued, dev, snap, cursor, acc, committed, fs, run>>
  /\ waitq' = Dequeue(waitq, t)
  /\ UNCHANGED memVars

(***************************************************************************)
(* DeviceService::list -> InMemoryDeviceRepository::list                   *)
(***************************************************************************)
ServiceList(t) ==
  /\ pc[t] = "idle"
  /\ req' = [req EXCEPT ![t] = [op |-> "list"]]
  /\ pc' = [pc EXCEPT ![t] = "list_wait"]
  /\ seen' = [seen EXCEPT ![t] = Len(committed)]
  /\ last' = NoCall
  /\ UNCHANGED <<store, wlock, rlock, issued, dev, snap, cursor, acc, committed, fs, run>>
  /\ UNCHANGED <<memVars, waitq>>

\* self.store.read().await
RepoListLock(t) ==
  /\ pc[t] = "list_wait"
  /\ CanRead(t)
  /\ rlock' = rlock \cup {t}
  /\ cursor' = [cursor EXCEPT ![t] = 1]
  /\ pc' = [pc EXCEPT ![t] = "list_locked"]
  /\ last' = NoCall
  /\ UNCHANGED <<store, wlock, issued, req, dev, snap, acc, seen, committed, fs, run>>
  /\ waitq' = Dequeue(waitq, t)
  /\ UNCHANGED memVars

\* r.values().cloned() visits the next slot of the table.
RepoListNext(t) ==
  /\ pc[t] = "list_locked"
  /\ cursor[t] < MaxDevices
  /\ acc' = [acc EXCEPT ![t] = CollectSlot(acc[t], store, cursor[t])]
  /\ cursor' = [cursor EXCEPT ![t] = cursor[t] + 1]
  /\ last' = NoCall
  /\ UNCHANGED <<store, wlock, rlock, issued, pc, req, dev, snap, seen, committed, fs, run>>
  /\ UNCHANGED <<memVars, waitq>>

\* The last slot is visited and .collect() is complete: the read guard is
\* dropped and Ok(vec) is returned.
RepoListEnd(t) ==
  /\ pc[t] = "list_locked"
  /\ cursor[t] = MaxDevices
  /\ rlock' = rlock \ {t}
  /\ cursor' = [cursor EXCEPT ![t] = 0]
  /\ acc' = [acc EXCEPT ![t] = <<>>]
  /\ Finish(t, Ok(CollectSlot(acc[t], store, cursor[t])))
  /\ UNCHANGED <<store, wlock, issued, dev, snap, committed, fs, run>>
  /\ UNCHANGED <<memVars, waitq>>

\* Every step a caller of the device service can take.
ServiceStep(t, inputs) ==
  \/ ServiceCreate(t, inputs)
  \/ RepoCreateInsertBegin(t)
  \/ RepoCreateInsertEnd(t)
  \/ ServiceGet(t)
  \/ RepoFindById(t)
  \/ ServiceList(t)
  \/ RepoListLock(t)
  \/ RepoListNext(t)
  \/ RepoListEnd(t)

\* Concurrent callers of the device service.
NextStore == \E t \in Tasks : ServiceStep(t, ConcurrentInputs)

\* One caller of the device service, with every combination of arguments.
NextCreate == ServiceStep(1, CreateInputs)

(***************************************************************************)
(* InMemoryDeviceRepository with its values in memory: one caller, who     *)
(* keeps, changes and drops what it receives.                              *)
(***************************************************************************)
\* A call of the repository returned r.
RepoReturned(op, q, r) == [NoCall EXCEPT !.op = op, !.req = q, !.ret = r]
\* What the caller keeps of a call: the values at addrs.
Keep(addrs, by) == [k \in 1..Len(addrs) |-> [addr |-> addrs[k], by |-> by]]
\* The values the caller received from the calls in kinds.
HeldBy(kinds) == SelectSeq(held, LAMBDA e : e.by \in kinds)
\* The values of hs are dropped.
DropAll(h, hs) == [a \in Addrs |-> IF \E k \in 1..Len(hs) : hs[k].addr = a THEN None ELSE h[a]]

\* create(device): w.insert(device.id, device.clone()); Ok(device)
ObjCreate ==
  /\ HeldBy({"own"}) = <<>>
  /\ \E d \in RepoDevices :
       LET a == Alloc(heap)
           c == Clone([heap EXCEPT ![a] = Some(d)], a)
       IN /\ table' = [table EXCEPT ![d.id] = BucketOf(d.id)]
          /\ heap' = BucketPut(c.heap, BucketOf(d.id), c.addr)
          /\ held' = held \o Keep(<<a>>, "own")
          /\ last' = RepoReturned("repo_create",
                                   [op |-> "repo_create", device |-> d,
                                    present |-> table[d.id] # NoAddr],
                                   Ok(a))
  /\ UNCHANGED <<store, wlock, rlock, issued, pc, req, dev, snap, cursor, acc, seen, committed, fs, run>>
  /\ UNCHANGED waitq

\* find_by_id(id): Ok(r.get(&id).cloned())
ObjFindById ==
  /\ \E id \in Ids :
       IF table[id] = NoAddr
         THEN /\ last' = RepoReturned("repo_find", [op |-> "repo_find", id |-> id], Ok(None))
              /\ UNCHANGED <<memVars, waitq>>
         ELSE /\ HeldBy({"own"}) = <<>>
              /\ LET c == Clone(heap, table[id])
                 IN /\ heap' = c.heap
                    /\ held' = held \o Keep(<<c.addr>>, "own")
                    /\ last' = RepoReturned("repo_find", [op |-> "repo_find", id |-> id],
                                             Ok(Some(c.addr)))
              /\ UNCHANGED table
  /\ UNCHANGED <<store, wlock, rlock, issued, pc, req, dev, snap, cursor, acc, seen, committed, fs, run>>
  /\ UNCHANGED waitq

\* list(): Ok(r.values().cloned().collect())
ObjList ==
  /\ HeldBy({"list"}) = <<>>
  /\ LET r == CloneValues(heap, table, 1)
     IN /\ heap' = r.heap
        /\ held' = held \o Keep(r.addrs, "list")
        /\ last' = RepoReturned("repo_list", [op |-> "repo_list"], Ok(r.addrs))
  /\ UNCHANGED table
  /\ UNCHANGED <<store, wlock, rlock, issued, pc, req, dev, snap, cursor, acc, seen, committed, fs, run>>
  /\ UNCHANGED waitq

\* The caller changes a field of a value it owns.
CallerMutate ==
  /\ \E k \in 1..Len(held), n \in Names :
       /\ heap[held[k].addr] # None
       /\ heap[held[k].addr][1].name # n
       /\ heap' = [heap EXCEPT ![held[k].addr] = Some([@[1] EXCEPT !.name = n])]
  /\ last' = RepoReturned("caller_mutate", NoReq, NoRet)
  /\ UNCHANGED <<table, held>>
  /\ UNCHANGED <<store, wlock, rlock, issued, pc, req, dev, snap, cursor, acc, seen, committed, fs, run>>
  /\ UNCHANGED waitq

\* The caller drops the device, or the vector, it has kept.
CallerDrop ==
  /\ \E kinds \in {{"own"}, {"list"}} :
       /\ HeldBy(kinds) # <<>>
       /\ heap' = DropAll(heap, HeldBy(kinds))
       /\ held' = SelectSeq(held, LAMBDA e : e.by \notin kinds)
  /\ last' = RepoReturned("caller_drop", NoReq, NoRet)
  /\ UNCHANGED table
  /\ UNCHANGED <<store, wlock, rlock, issued, pc, req, dev, snap, cursor, acc, seen, committed, fs, run>>
  /\ UNCHANGED waitq

NextRepo ==
  \/ ObjCreate
  \/ ObjFindById
  \/ ObjList
  \/ CallerMutate
  \/ CallerDrop

(***************************************************************************)
(* The filesystem the runner works on.                                     *)
(***************************************************************************)
\* The directory the project directories live in.
LabDir == "/lab"
\* format!("{}/src", project_path)
SrcDir(p) == p \o "/src"
\* format!("{}/main.cpp", src_dir)
MainPath(d) == d \o "/main.cpp"
\* The configuration file of the project in p: a file other than main.cpp.
IniPath(p) == p \o "/platformio.ini"
\* The directory p and its ancestors.
DirChain(p) == {LabDir, p} \cup {q \in ProjectPaths : SrcDir(q) = p}

\* File contents are sequences of chunks. main_cpp_content is one chunk.
MainCppContent == <<"#include <Arduino.h> ... delay(1000); }">>
OtherContent == <<"other">>
EmptyContent == <<>>
\* No file exists.
NoFiles == <<>>
\* The files, with p holding c.
WithFile(files, p, c) ==
  [q \in DOMAIN files \cup {p} |-> IF q = p THEN c ELSE files[q]]

EmptyFs == [dirs |-> {}, tool |-> {}, files |-> NoFiles]
\* The directories a toolchain operation can find.
InitialDirs ==
  {{}, {LabDir}} \cup {DirChain(p) : p \in ProjectPaths}
                 \cup {DirChain(SrcDir(p)) : p \in ProjectPaths}
\* The files that can exist beforehand in the directories D.
InitialFiles(D) ==
  {[q \in Q |-> OtherContent] :
     Q \in SUBSET ({IniPath(p) : p \in ProjectPaths \cap D}
                     \cup {MainPath(SrcDir(p)) : p \in {q \in ProjectPaths : SrcDir(q) \in D}})}
\* The filesystems a toolchain operation can find.
InitialFs ==
  UNION {{[dirs |-> D, tool |-> {}, files |-> F] : F \in InitialFiles(D)} : D \in InitialDirs}

\* tokio::fs::create_dir_all(p) succeeds: p and its missing ancestors exist.
CreateDirAllOk(f, p) == [f EXCEPT !.dirs = @ \cup DirChain(p)]
\* tokio::fs::create_dir_all(p) fails: some of the missing ancestors may exist.
CreateDirAllErr(f, p) ==
  {[f EXCEPT !.dirs = @ \cup made] :
     made \in {S \in SUBSET (DirChain(p) \ {p}) : S = {} \/ LabDir \in S}}

\* Faulty variant: an existing file is opened as it is and written at its end.
FileCreateKeep(f, p) ==
  IF p \in DOMAIN f.files THEN f ELSE [f EXCEPT !.files = WithFile(@, p, EmptyContent)]

\* File::create(p): the file exists and is empty, whatever it held.
FileCreate(f, p) == [f EXCEPT !.files = WithFile(@, p, EmptyContent)]
\* write_all(c) on the open file p: c follows what the file holds.
FileWriteAll(f, p, c) == [f EXCEPT !.files = WithFile(@, p, f.files[p] \o c)]
\* tokio::fs::write(p, c) succeeds.
FsWriteOk(f, p, c) == FileWriteAll(FileCreate(f, p), p, c)
\* tokio::fs::write(p, c) fails: the file could not be opened, or it was and the
\* write failed.
FsWriteErr(f, p, c) == {f, FileCreate(f, p)}
\* The toolchain subprocess wrote files under its working directory p.
ToolWrites(f, p) == [f EXCEPT !.tool = @ \cup {p}]

(***************************************************************************)
(* Captured output: bytes, and String::from_utf8_lossy of them.            *)
(***************************************************************************)
\* An ASCII byte, the lead byte of a two-byte sequence, a continuation byte.
Bytes == {"a", "0xC3", "0xA9"}
ByteStrings == UNION {[1..n -> Bytes] : n \in 0..MaxOut}
\* U+FFFD, which replaces every invalid sequence.
Replacement == "U+FFFD"

RECURSIVE Utf8Lossy(_)
Utf8Lossy(b) ==
  IF b = <<>> THEN <<>>
  ELSE IF b[1] = "a" THEN <<"a">> \o Utf8Lossy(Tail(b))
  ELSE IF b[1] = "0xC3" /\ Len(b) >= 2 /\ b[2] = "0xA9"
    THEN <<"e-acute">> \o Utf8Lossy(Tail(Tail(b)))
  ELSE <<Replacement>> \o Utf8Lossy(Tail(b))

(***************************************************************************)
(* PlatformIOService                                                       *)
(***************************************************************************)
RunnerOps ==
  {"build_project", "upload_firmware", "clean_project", "get_project_info", "init_project"}
Ports == {None, Some("/dev/ttyUSB0")}

\* The calls of the runner: the operation and its arguments.
RunnerRequests ==
  {[op |-> o, path |-> p, port |-> None, board |-> ""] :
     o \in {"build_project", "clean_project", "get_project_info"}, p \in ProjectPaths}
  \cup {[op |-> "upload_firmware", path |-> p, port |-> q, board |-> ""] :
          p \in ProjectPaths, q \in Ports}
  \cup {[op |-> "init_project", path |-> p, port |-> None, board |-> b] :
          p \in ProjectPaths, b \in BoardTypes}
  \cup {[op |-> "create_basic_main", path |-> p, port |-> None, board |-> ""] :
          p \in ProjectPaths}

\* The argument list each operation gives run_pio_command.
PioArgs(r) ==
  CASE r.op = "build_project" -> <<"run">>
    [] r.op = "upload_firmware" ->
         <<"run", "--target", "upload">>
           \o (IF r.port = None THEN <<>> ELSE <<"--upload-port", r.port[1]>>)
    [] r.op = "clean_project" -> <<"run", "--target", "clean">>
    [] r.op = "get_project_info" -> <<"project", "config">>
    [] r.op = "init_project" -> <<"project", "init", "--board", r.board>>
VersionArgs == <<"--version">>

\* ExitStatus: the exit codes a subprocess can report.
ExitStatuses == {0, 1, 2}
\* ExitStatus::success
StatusSuccess(code) == code = 0

\* The std::io::Error an error message ends with.
IoError == "io error"
ErrNotFound == <<"PlatformIO not found. Please install PlatformIO: ", IoError>>
ErrCheckFailed == <<"PlatformIO installation check failed">>
ErrExecute == <<"Failed to execute platformio command: ", IoError>>
ErrCreateDir == <<"Failed to create project directory: ", IoError>>
ErrCreateSrcDir == <<"Failed to create src directory: ", IoError>>
ErrWriteMain == <<"Failed to write main.cpp: ", IoError>>

\* Faulty variant: the probe's exit status is not looked at.
CheckPioInstalledIgnored(code) == Ok(<<>>)

\* check_pio_installed, once the probe has exited with code.
CheckPioInstalled(code) ==
  IF StatusSuccess(code) THEN Ok(<<>>) ELSE Err(ErrCheckFailed)

\* Faulty variant: the message is the two streams and nothing else.
RunPioFailureBare(stdout, stderr) == stdout \o stderr

\* Faulty variant: the error stream comes first.
RunPioSuccessStderrFirst(stdout, stderr) == stderr \o stdout

\* format!("{}{}", stdout, stderr)
RunPioSuccess(stdout, stderr) == stdout \o stderr
\* anyhow!("PlatformIO command failed: {}\n{}", stdout, stderr)
RunPioFailure(stdout, stderr) ==
  <<"PlatformIO command failed: ">> \o stdout \o <<"\n">> \o stderr

\* Faulty variant: anything on stderr counts as a failure.
RunPioResultByStderr(code, stdout, stderr) ==
  IF StatusSuccess(code) /\ stderr = <<>>
    THEN Ok(RunPioSuccess(Utf8Lossy(stdout), Utf8Lossy(stderr)))
    ELSE Err(RunPioFailure(Utf8Lossy(stdout), Utf8Lossy(stderr)))

\* run_pio_command, once the action subprocess has exited.
RunPioResult(code, stdout, stderr) ==
  IF StatusSuccess(code)
    THEN Ok(RunPioSuccess(Utf8Lossy(stdout), Utf8Lossy(stderr)))
    ELSE Err(RunPioFailure(Utf8Lossy(stdout), Utf8Lossy(stderr)))

\* Faulty variant: init_project goes to the toolchain without creating the directory.
FirstStepProbeFirst(r) == "probe_spawn"

\* Faulty variant: create_basic_main checks the toolchain first, as the other
\* operations do.
FirstStepMainProbes(r) ==
  CASE r.op = "init_project" -> "init_mkdir"
    [] OTHER -> "probe_spawn"

\* Where an operation begins: init_project creates the directory first, and
\* create_basic_main goes to the filesystem only.
FirstStep(r) ==
  CASE r.op = "init_project" -> "init_mkdir"
    [] r.op = "create_basic_main" -> "main_mkdir"
    [] OTHER -> "probe_spawn"

\* Faulty variant: an operation that failed starts over from the version probe.
RunnerReturnRetry(t, r, h) ==
  IF ~r.ok /\ Len(h.spawned) < 4
    THEN /\ pc' = [pc EXCEPT ![t] = "probe_spawn"]
         /\ run' = [run EXCEPT ![t] = h]
         /\ last' = NoCall
         /\ UNCHANGED <<req, seen>>
    ELSE /\ Return(t, r, h)
         /\ run' = [run EXCEPT ![t] = NoRun]

\* A toolchain operation returns r, having done h.
RunnerReturn(t, r, h) ==
  /\ Return(t, r, h)
  /\ run' = [run EXCEPT ![t] = NoRun]

\* A caller invokes a toolchain operation.
RunnerCall(t, requests) ==
  /\ pc[t] = "idle"
  /\ \E r \in requests :
       /\ req' = [req EXCEPT ![t] = r]
       /\ pc' = [pc EXCEPT ![t] = FirstStep(r)]
  /\ run' = [run EXCEPT ![t] = [NoRun EXCEPT !.fs0 = fs]]
  /\ last' = NoCall
  /\ UNCHANGED <<store, wlock, rlock, issued, dev, snap, cursor, acc, seen, committed, fs>>
  /\ UNCHANGED <<memVars, waitq>>

\* init_project: tokio::fs::create_dir_all(project_path).await ...?
InitCreateDir(t) ==
  /\ pc[t] = "init_mkdir"
  /\ \/ /\ fs' = CreateDirAllOk(fs, req[t].path)
        /\ pc' = [pc EXCEPT ![t] = "probe_spawn"]
        /\ last' = NoCall
        /\ UNCHANGED <<req, seen, run>>
     \/ /\ req[t].path \notin fs.dirs
        /\ fs' \in CreateDirAllErr(fs, req[t].path)
        /\ RunnerReturn(t, Err(ErrCreateDir), run[t])
  /\ UNCHANGED <<store, wlock, rlock, issued, dev, snap, cursor, acc, committed>>
  /\ UNCHANGED <<memVars, waitq>>

\* check_pio_installed: Command::new("platformio").arg("--version").output()
\* cannot start the process, or starts it.
ProbeSpawn(t) ==
  /\ pc[t] = "probe_spawn"
  /\ \/ RunnerReturn(t, Err(ErrNotFound), [run[t] EXCEPT !.probe = "nostart"])
     \/ /\ run' = [run EXCEPT ![t].spawned = Append(@, VersionArgs)]
        /\ pc' = [pc EXCEPT ![t] = "probe_wait"]
        /\ last' = NoCall
        /\ UNCHANGED <<req, seen>>
  /\ UNCHANGED <<store, wlock, rlock, issued, dev, snap, cursor, acc, committed, fs>>
  /\ UNCHANGED <<memVars, waitq>>

\* check_pio_installed: the probe exits; self.check_pio_installed().await?
ProbeExit(t) ==
  /\ pc[t] = "probe_wait"
  /\ \E code \in ExitStatuses :
       IF CheckPioInstalled(code).ok
         THEN /\ run' = [run EXCEPT ![t].probe = IF StatusSuccess(code) THEN "ok" ELSE "nonzero"]
              /\ pc' = [pc EXCEPT ![t] = "action_spawn"]
              /\ last' = NoCall
              /\ UNCHANGED <<req, seen>>
         ELSE RunnerReturn(t, CheckPioInstalled(code), [run[t] EXCEPT !.probe = "nonzero"])
  /\ UNCHANGED <<store, wlock, rlock, issued, dev, snap, cursor, acc, committed, fs>>
  /\ UNCHANGED <<memVars, waitq>>

\* Faulty variant: the process is started and the operation returns without
\* waiting for it.
ActionSpawnDetached(t) ==
  /\ pc[t] = "action_spawn"
  /\ \/ RunnerReturn(t, Err(ErrExecute), run[t])
     \/ /\ req[t].path \in fs.dirs
        /\ RunnerReturn(t, Ok(<<>>), [run[t] EXCEPT !.spawned = Append(@, PioArgs(req[t]))])
  /\ UNCHANGED <<store, wlock, rlock, issued, dev, snap, cursor, acc, committed, fs>>
  /\ UNCHANGED <<memVars, waitq>>

\* Faulty variant: the runner starts one action subprocess at a time.
ActionSpawnExclusive(t) ==
  /\ pc[t] = "action_spawn"
  /\ \/ RunnerReturn(t, Err(ErrExecute), run[t])
     \/ /\ req[t].path \in fs.dirs
        /\ \A u \in Tasks : pc[u] # "action_wait"
        /\ run' = [run EXCEPT ![t].spawned = Append(@, PioArgs(req[t]))]
        /\ pc' = [pc EXCEPT ![t] = "action_wait"]
        /\ last' = NoCall
        /\ UNCHANGED <<req, seen>>
  /\ UNCHANGED <<store, wlock, rlock, issued, dev, snap, cursor, acc, committed, fs>>
  /\ UNCHANGED <<memVars, waitq>>

\* run_pio_command: cmd.args(args).current_dir(project_path).output() cannot
\* start the process, or starts it in the project directory.
ActionSpawn(t) ==
  /\ pc[t] = "action_spawn"
  /\ \/ RunnerReturn(t, Err(ErrExecute), run[t])
     \/ /\ req[t].path \in fs.dirs
        /\ run' = [run EXCEPT ![t].spawned = Append(@, PioArgs(req[t]))]
        /\ pc' = [pc EXCEPT ![t] = "action_wait"]
        /\ last' = NoCall
        /\ UNCHANGED <<req, seen>>
  /\ UNCHANGED <<store, wlock, rlock, issued, dev, snap, cursor, acc, committed, fs>>
  /\ UNCHANGED <<memVars, waitq>>

\* run_pio_command: the action subprocess exits, its output is captured and the
\* result is built from the exit status.
ActionExit(t, outs) ==
  /\ pc[t] = "action_wait"
  /\ \E code \in ExitStatuses, stdout \in outs, stderr \in outs :
       RunnerReturn(t, RunPioResult(code, stdout, stderr),
                    [run[t] EXCEPT !.exit = <<code>>, !.stdout = stdout, !.stderr = stderr])
  /\ fs' \in {fs, ToolWrites(fs, req[t].path)}
  /\ UNCHANGED <<store, wlock, rlock, issued, dev, snap, cursor, acc, committed>>
  /\ UNCHANGED <<memVars, waitq>>

\* create_basic_main: tokio::fs::create_dir_all(&src_dir).await ...?
MainCreateDir(t) ==
  /\ pc[t] = "main_mkdir"
  /\ \/ /\ fs' = CreateDirAllOk(fs, SrcDir(req[t].path))
        /\ pc' = [pc EXCEPT ![t] = "main_write"]
        /\ last' = NoCall
        /\ UNCHANGED <<req, seen, run>>
     \/ /\ SrcDir(req[t].path) \notin fs.dirs
        /\ fs' \in CreateDirAllErr(fs, SrcDir(req[t].path))
        /\ RunnerReturn(t, Err(ErrCreateSrcDir), run[t])
  /\ UNCHANGED <<store, wlock, rlock, issued, dev, snap, cursor, acc, committed>>
  /\ UNCHANGED <<memVars, waitq>>

\* create_basic_main: tokio::fs::write(&main_path, main_cpp_content).await ...?
\* and Ok(()).
MainWrite(t) ==
  /\ pc[t] = "main_write"
  /\ \/ /\ fs' = FsWriteOk(fs, MainPath(SrcDir(req[t].path)), MainCppContent)
        /\ RunnerReturn(t, Ok(<<>>), run[t])
     \/ /\ fs' \in FsWriteErr(fs, MainPath(SrcDir(req[t].path)), MainCppContent)
        /\ RunnerReturn(t, Err(ErrWriteMain), run[t])
  /\ UNCHANGED <<store, wlock, rlock, issued, dev, snap, cursor, acc, committed>>
  /\ UNCHANGED <<memVars, waitq>>

\* check_pio_installed and run_pio_command: the two subprocesses.
PioCommand(t, outs) ==
  \/ ProbeSpawn(t)
  \/ ProbeExit(t)
  \/ ActionSpawn(t)
  \/ ActionExit(t, outs)

\* The steps of a toolchain operation once it is called; its subprocess writes
\* some of outs to each stream.
RunnerBody(t, outs) ==
  \/ InitCreateDir(t)
  \/ PioCommand(t, outs)
  \/ MainCreateDir(t)
  \/ MainWrite(t)

\* Every step of a toolchain operation.
RunnerStep(t) == RunnerCall(t, RunnerRequests) \/ RunnerBody(t, ByteStrings)

(***************************************************************************)
(* handlers::esp32_handler: the firmware requests.                         *)
(***************************************************************************)
\* The {id} segment of the path: the text of a Uuid, or something else.
PathIds == {<<"uuid", i>> : i \in Ids} \cup {<<"junk">>}
\* Uuid::parse_str
UuidParseStr(s) == IF s[1] = "uuid" THEN Some(s[2]) ELSE None

\* The requests: build, upload and init carry a JSON body with device_id;
\* clean and create-main carry none.
HttpRequests ==
  {[route |-> "build", path |-> p, device_id |-> Some(i), port |-> None, board |-> ""] :
     p \in PathIds, i \in Ids}
  \cup {[route |-> "upload", path |-> p, device_id |-> Some(i), port |-> q, board |-> ""] :
          p \in PathIds, i \in Ids, q \in Ports}
  \cup {[route |-> "init", path |-> p, device_id |-> Some(i), port |-> None, board |-> b] :
          p \in PathIds, i \in Ids, b \in BoardTypes}
  \cup {[route |-> r, path |-> p, device_id |-> None, port |-> None, board |-> ""] :
          r \in {"clean", "create-main"}, p \in PathIds}

\* The identifier the handler looks up: payload.device_id in build_firmware,
\* upload_firmware and init_project, the parsed path in clean_project and
\* create_basic_main.
HandlerDeviceId(h) ==
  IF h.route \in {"build", "upload", "init"} THEN h.device_id ELSE UuidParseStr(h.path)

\* The PlatformIOService operation each handler calls.
HandlerOp(route) ==
  CASE route = "build" -> "build_project"
    [] route = "upload" -> "upload_firmware"
    [] route = "init" -> "init_project"
    [] route = "clean" -> "clean_project"
    [] route = "create-main" -> "create_basic_main"

\* Faulty variant: a device without a project path gets the default directory.
HandlerProjectPathOrDefault(d) ==
  IF d.project_path = None THEN Some("/lab/p1") ELSE d.project_path

\* match device.project_path
HandlerProjectPath(d) == d.project_path

\* The handler of task t returns resp without calling the toolchain.
Respond(t, h, resp) ==
  /\ last' = [NoCall EXCEPT !.op = "handle", !.req = [op |-> "handle", http |-> h],
                            !.run = [NoRun EXCEPT !.fs0 = fs], !.http = resp]
  /\ pc' = [pc EXCEPT ![t] = "idle"]
  /\ req' = [req EXCEPT ![t] = NoReq]
  /\ seen' = [seen EXCEPT ![t] = 0]

\* A firmware request arrives; clean_project and create_basic_main parse the
\* path and answer 400 if it is no Uuid. The handler then calls
\* device_service.get.
HandlerReceive(t, requests) ==
  /\ pc[t] = "idle"
  /\ \E h \in requests :
       IF HandlerDeviceId(h) = None
         THEN Respond(t, h, Rejected(400, <<"Invalid device ID">>))
         ELSE /\ req' = [req EXCEPT ![t] = [op |-> "handle", http |-> h,
                                            id |-> HandlerDeviceId(h)[1]]]
              /\ pc' = [pc EXCEPT ![t] = "handler_get_wait"]
              /\ seen' = [seen EXCEPT ![t] = Len(committed)]
              /\ last' = NoCall
  /\ UNCHANGED <<store, wlock, rlock, issued, dev, snap, cursor, acc, committed, fs, run>>
  /\ UNCHANGED <<memVars, waitq>>

\* Faulty variant: the read guard is kept while the toolchain operation runs.
HandlerGetHolding(t) ==
  /\ pc[t] = "handler_get_wait"
  /\ CanRead(t)
  /\ LET h == req[t].http
         found == MapGet(store, req[t].id)
     IN IF found = None
          THEN /\ Respond(t, h, Rejected(404, <<"Device not found">>))
               /\ UNCHANGED <<run, rlock>>
        ELSE IF HandlerProjectPath(found[1]) = None
          THEN /\ Respond(t, h, Rejected(400, <<"Device has no project path configured">>))
               /\ UNCHANGED <<run, rlock>>
        ELSE /\ req' = [req EXCEPT ![t] =
                          [op |-> HandlerOp(h.route), path |-> HandlerProjectPath(found[1])[1],
                           port |-> h.port, board |-> h.board, http |-> h]]
             /\ pc' = [pc EXCEPT ![t] =
                         FirstStep([op |-> HandlerOp(h.route)])]
             /\ run' = [run EXCEPT ![t] = [NoRun EXCEPT !.fs0 = fs]]
             /\ rlock' = rlock \cup {t}
             /\ last' = NoCall
             /\ UNCHANGED seen
  /\ UNCHANGED <<store, wlock, issued, dev, snap, cursor, acc, committed, fs>>
  /\ waitq' = Dequeue(waitq, t)
  /\ UNCHANGED memVars

\* device_service.get returns under the read guard; the handler answers 404 for
\* no device, 400 for a device without project path, and otherwise calls the
\* PlatformIOService operation with the device's project path.
HandlerGet(t) ==
  /\ pc[t] = "handler_get_wait"
  /\ CanRead(t)
  /\ LET h == req[t].http
         found == MapGet(store, req[t].id)
     IN IF found = None
          THEN /\ Respond(t, h, Rejected(404, <<"Device not found">>))
               /\ UNCHANGED run
        ELSE IF HandlerProjectPath(found[1]) = None
          THEN /\ Respond(t, h, Rejected(400, <<"Device has no project path configured">>))
               /\ UNCHANGED run
        ELSE /\ req' = [req EXCEPT ![t] =
                          [op |-> HandlerOp(h.route), path |-> HandlerProjectPath(found[1])[1],
                           port |-> h.port, board |-> h.board, http |-> h]]
             /\ pc' = [pc EXCEPT ![t] =
                         FirstStep([op |-> HandlerOp(h.route)])]
             /\ run' = [run EXCEPT ![t] = [NoRun EXCEPT !.fs0 = fs]]
             /\ last' = NoCall
             /\ UNCHANGED seen
  /\ UNCHANGED <<store, wlock, rlock, issued, dev, snap, cursor, acc, committed, fs>>
  /\ waitq' = Dequeue(waitq, t)
  /\ UNCHANGED memVars

\* What the subprocess of a firmware request writes to a stream: nothing, or
\* some text.
ShortOutputs == {<<>>, <<"a">>}

\* Every step of a firmware request.
HandlerStep(t) ==
  \/ HandlerReceive(t, HttpRequests)
  \/ HandlerGet(t)
  \/ RunnerBody(t, ShortOutputs)

\* One client that registers devices and sends firmware requests.
NextHandler ==
  \/ ServiceCreate(1, ConcurrentInputs)
  \/ RepoCreateInsertBegin(1)
  \/ RepoCreateInsertEnd(1)
  \/ HandlerStep(1)

(***************************************************************************)
(* The store under load: one task registers devices, the others read the   *)
(* store and send build requests, and the tasks are scheduled fairly.      *)
(***************************************************************************)
\* Task t is inside a call of the store.
InStoreCall(t) ==
  pc[t] \in {"create_wait", "create_insert", "get_wait", "list_wait", "list_locked",
             "handler_get_wait"}
\* Task t asked for a guard and has none yet.
WaitsForWrite(t) == pc[t] = "create_wait"
WaitsForRead(t) == pc[t] \in {"get_wait", "list_wait", "handler_get_wait"}
\* The tasks in the queue.
Queued == {waitq[k] : k \in 1..Len(waitq)}

\* write().await or read().await cannot return at once: the task joins the
\* queue of the lock.
LockWait(t) ==
  /\ t \notin Queued
  /\ \/ WaitsForWrite(t) /\ ~CanWrite(t)
     \/ WaitsForRead(t) /\ ~CanRead(t)
  /\ waitq' = Append(waitq, t)
  /\ last' = NoCall
  /\ UNCHANGED <<store, wlock, rlock, issued, pc, req, dev, snap, cursor, acc, seen, committed, fs, run>>
  /\ UNCHANGED memVars

\* The build requests for the device registered first, named in the path and
\* in the body.
BuildRequests ==
  {h \in HttpRequests :
     h.route = "build" /\ h.path = <<"uuid", 1>> /\ h.device_id = Some(1)}
\* The devices registered under load have a project directory.
LiveInputs == {in \in ConcurrentInputs : in[4] # None}
\* The subprocess of a build request under load writes nothing.
NoOutputs == {<<>>}

\* What the scheduler owes task t: a task inside a store call that can go on
\* is polled.
StoreProgress(t) ==
  \/ LockWait(t)
  \/ RepoCreateInsertBegin(t)
  \/ RepoCreateInsertEnd(t)
  \/ RepoFindById(t)
  \/ RepoListLock(t)
  \/ RepoListNext(t)
  \/ RepoListEnd(t)
  \/ HandlerGet(t)

\* The task that registers devices.
WriterStep(t) ==
  \/ ServiceCreate(t, LiveInputs)
  \/ RepoCreateInsertBegin(t)
  \/ RepoCreateInsertEnd(t)
  \/ LockWait(t)

\* A task that reads the store or handles build requests: its toolchain
\* subprocesses exit when they do, if ever.
ReaderStep(t) ==
  \/ ServiceGet(t)
  \/ RepoFindById(t)
  \/ ServiceList(t)
  \/ RepoListLock(t)
  \/ RepoListNext(t)
  \/ RepoListEnd(t)
  \/ LockWait(t)
  \/ HandlerReceive(t, BuildRequests)
  \/ HandlerGet(t)
  \/ PioCommand(t, NoOutputs)

\* One task registers devices, the others read.
Writers == {1}
Readers == Tasks \ Writers

\* The project directories exist.
ProjectFs == [EmptyFs EXCEPT !.dirs = UNION {DirChain(p) : p \in ProjectPaths}]
InitLive == InitStore /\ fs = ProjectFs
NextLive == (\E t \in Writers : WriterStep(t)) \/ (\E t \in Readers : ReaderStep(t))

(***************************************************************************)
(* Concurrent callers of the one PlatformIOService, which has no fields.   *)
(***************************************************************************)
\* The project directories of two devices.
SharedPaths == ProjectPaths \cup {"/lab/p2"}
\* Builds of either project.
SharedRequests ==
  {[op |-> "build_project", path |-> p, port |-> None, board |-> ""] : p \in SharedPaths}
\* Both project directories exist.
SharedFs == [EmptyFs EXCEPT !.dirs = UNION {DirChain(p) : p \in SharedPaths}]
InitShared == InitStore /\ fs = SharedFs
NextShared ==
  \E t \in Tasks : RunnerCall(t, SharedRequests) \/ PioCommand(t, NoOutputs)

(***************************************************************************)
(* Firmware requests of every route while devices are registered.          *)
(***************************************************************************)
\* The firmware requests for the device registered first, named in the path
\* and in the body where there is one.
FirmwareRequests ==
  {h \in HttpRequests :
     h.path = <<"uuid", 1>> /\ (h.device_id = None \/ h.device_id = Some(1))}

\* A task that handles firmware requests.
FirmwareStep(t) ==
  \/ HandlerReceive(t, FirmwareRequests)
  \/ LockWait(t)
  \/ HandlerGet(t)
  \/ RunnerBody(t, NoOutputs)

\* One task sends the firmware requests, the others register devices.
FirmwareClients == {2}
Registrars == Tasks \ FirmwareClients
NextFirmware ==
  (\E t \in Registrars : WriterStep(t)) \/ (\E t \in FirmwareClients : FirmwareStep(t))

\* One caller of the runner, on any filesystem.
InitRunner == InitStore /\ fs \in InitialFs
NextRunner == RunnerStep(1)

Init == InitStore /\ fs = EmptyFs
Next == NextStore
vars == <<storeVars, runnerVars, memVars, waitq>>
Spec == Init /\ [][Next]_vars
SpecCreate == Init /\ [][NextCreate]_vars
SpecRunner == InitRunner /\ [][NextRunner]_vars
SpecRepo == Init /\ [][NextRepo]_vars
SpecHandler == Init /\ [][NextHandler]_vars
SpecShared == InitShared /\ [][NextShared]_vars
SpecFirmware == Init /\ [][NextFirmware]_vars
\* Fair scheduling: no fairness for a caller to call, nor for a subprocess to exit.
SpecLive == InitLive /\ [][NextLive]_vars /\ \A t \in Tasks : WF_vars(StoreProgress(t))

(***************************************************************************)
(* Properties of the device store and the device service.                  *)
(***************************************************************************)
\* The entry for id among the devices S, as find_by_id would report it.
LookupIn(S, id) ==
  IF \E d \in S : d.id = id THEN Some(CHOOSE d \in S : d.id = id) ELSE None

\* board_type and project_path are both present or both absent.
BothOrNeither(d) ==
  \/ IsSome(d.board_type) /\ IsSome(d.project_path)
  \/ d.board_type = None /\ d.project_path = None

\* The slot a create in progress is writing.
BeingWritten(i) == wlock # NoTask /\ dev[wlock].id = i

\* C1: a get(d.id) that begins after create returned d returns Some(d), equal
\* to d in id, name, board_id, board_type and project_path, whatever calls ran
\* in between.
C1_GetReturnsCreated ==
  last.op = "get" =>
    \A d \in ReturnedBy(last.seen) :
      d.id = last.req.id =>
        /\ last.ret.ok
        /\ last.ret.val = Some(d)
        /\ last.ret.val[1].id = d.id
        /\ last.ret.val[1].name = d.name
        /\ last.ret.val[1].board_id = d.board_id
        /\ last.ret.val[1].board_type = d.board_type
        /\ last.ret.val[1].project_path = d.project_path

\* C1 witness: a get of a device created earlier returns it after a further
\* create has returned.
C1_Witness ==
  /\ last.op = "get"
  /\ last.seen >= 1
  /\ Len(committed) >= 2
  /\ committed[1].id = last.req.id
  /\ last.ret = Ok(Some(committed[1]))

\* C2: every create returns success, and a list() that begins after creates
\* have returned contains every device they returned.
C2_NoLostWrite ==
  /\ last.op = "create" => last.ret.ok
  /\ last.op = "list" =>
       /\ last.ret.ok
       /\ ReturnedBy(last.seen) \subseteq Range(last.ret.val)

\* C2 witness: two creates overlapped (the second identifier issued was stored
\* first) and a list begun after both returned holds both devices.
C2_Witness ==
  /\ last.op = "list"
  /\ last.seen = 2
  /\ committed[1].id = 2
  /\ committed[2].id = 1
  /\ {committed[1], committed[2]} \subseteq Range(last.ret.val)

\* C3: a read returns the table as it was after some whole number of creates had
\* taken effect, between the read's call and its return: no torn record, and no
\* device of a create that has not taken effect.
C3_AtomicReads ==
  /\ last.op = "get" =>
       \E n \in last.seen..Len(committed) :
         last.ret = Ok(LookupIn(ReturnedBy(n), last.req.id))
  /\ last.op = "list" =>
       \E n \in last.seen..Len(committed) :
         /\ Len(last.ret.val) = n
         /\ Range(last.ret.val) = ReturnedBy(n)

\* C3 witness: a read returns while a create is waiting for the lock, after
\* another create took effect between the read's call and its return.
C3_Witness ==
  /\ last.op \in {"get", "list"}
  /\ last.seen < Len(committed)
  /\ \E t \in Tasks : pc[t] = "create_wait"

\* C4: a list() that runs after N creates have returned, and no other, returns
\* exactly N records, and they are the created devices as a set.
C4_ListAfterCreates ==
  (last.op = "list" /\ last.seen = Len(committed)) =>
    /\ Len(last.ret.val) = Len(committed)
    /\ Range(last.ret.val) = Returned
    /\ Cardinality(Returned) = Len(committed)

\* C4 witness: a list after two creates returns two records.
C4_Witness ==
  /\ last.op = "list"
  /\ last.seen = Len(committed)
  /\ Len(committed) >= 2
  /\ Len(last.ret.val) = Len(committed)

\* C5: create returns a configured device with the supplied board_type,
\* project_path and board_id when both board_type and project_path are supplied,
\* and a bare device (both absent) when either is missing.
C5_CreateConfiguredOrBare ==
  last.op = "create" =>
    /\ last.ret.ok
    /\ IF last.req.board_type # None /\ last.req.project_path # None
         THEN /\ last.ret.val.board_type = last.req.board_type
              /\ last.ret.val.project_path = last.req.project_path
              /\ last.ret.val.board_id = last.req.board_id
         ELSE /\ last.ret.val.board_type = None
              /\ last.ret.val.project_path = None

\* C5 witness: a create with only board_type supplied returns a bare device.
C5_Witness ==
  /\ last.op = "create"
  /\ last.req.board_type # None
  /\ last.req.project_path = None
  /\ last.ret.ok
  /\ last.ret.val.board_type = None

\* C6: every stored device, and every device a call returns, has board_type and
\* project_path both present or both absent.
C6_NeverPartiallyConfigured ==
  /\ \A i \in Ids :
       (store[i] # None /\ ~BeingWritten(i)) => BothOrNeither(store[i][1])
  /\ last.op = "create" => BothOrNeither(last.ret.val)
  /\ (last.op = "get" /\ last.ret.val # None) => BothOrNeither(last.ret.val[1])
  /\ last.op = "list" => \A d \in Range(last.ret.val) : BothOrNeither(d)

\* C6 witness: the store holds a configured device and a device created with
\* only project_path supplied.
C6_Witness ==
  /\ last.op = "create"
  /\ last.req.board_type = None
  /\ last.req.project_path # None
  /\ store[last.ret.val.id] = Some(last.ret.val)
  /\ \E i \in Ids : store[i] # None /\ IsSome(store[i][1].board_type)

\* No insert keyed by id has begun.
NeverInserted(id) ==
  /\ \A d \in Returned : d.id # id
  /\ \A t \in Tasks : pc[t] = "create_insert" => dev[t].id # id

\* C14: a get that returns leaves the store as it was, and for an identifier
\* no insert has used it returns the success value None, never an error, in
\* every store state, the empty store included.
C14_AbsentIsNone ==
  [][last'.op = "get" =>
       /\ store' = store
       /\ NeverInserted(last'.req.id) =>
            /\ last'.ret.ok
            /\ last'.ret.val = None
            /\ last'.ret = Ok(None)]_vars

\* C14 witness: a get for an identifier never inserted returned None from a
\* store that holds another device.
C14_Witness ==
  /\ last.op = "get"
  /\ NeverInserted(last.req.id)
  /\ \E i \in Ids : store[i] # None
  /\ last.ret = Ok(None)

\* What the repository returns for each identifier: the value the key has.
StoreView == [i \in Ids |-> IF table[i] = NoAddr THEN None ELSE heap[table[i]]]
RepoCalls == {"repo_create", "repo_find", "repo_list"}

\* C15: what a caller received from list, create or find_by_id is its own: no
\* later call of the repository (a create that overwrites a listed device
\* included) changes a value the caller already holds or their order, and
\* nothing the caller does to its values changes what the repository returns
\* for any identifier.
C15_CallerHoldsCopies ==
  [][/\ last'.op \in RepoCalls =>
          \A k \in 1..Len(held) :
            /\ Len(held') >= k
            /\ held'[k] = held[k]
            /\ heap'[held[k].addr] = heap[held[k].addr]
     /\ last'.op \in {"caller_mutate", "caller_drop"} => StoreView' = StoreView]_vars

\* C15 witness: the caller holds a device it received from list; a create has
\* since replaced that device in the repository, and the held one is as it was
\* listed.
C15_Witness ==
  /\ last.op = "repo_create"
  /\ last.req.present
  /\ \E k \in 1..Len(held) :
       /\ held[k].by = "list"
       /\ heap[held[k].addr] # None
       /\ heap[held[k].addr][1].id = last.req.device.id
       /\ heap[held[k].addr] # StoreView[last.req.device.id]

\* C16: a repository create(device) makes the record of device.id equal to
\* the device: it replaces the record and keeps the number of records when
\* the identifier was present, adds exactly one record when it was not,
\* returns a value equal to what find_by_id(device.id) gives next, and leaves
\* every other record as it was.
C16_CreateInsertsOrOverwrites ==
  [][last'.op = "repo_create" =>
       /\ StoreView'[last'.req.device.id] = Some(last'.req.device)
       /\ heap'[last'.ret.val] = StoreView'[last'.req.device.id]
       /\ \A j \in Ids \ {last'.req.device.id} : StoreView'[j] = StoreView[j]
       /\ Cardinality({i \in Ids : StoreView'[i] # None})
            = Cardinality({i \in Ids : StoreView[i] # None})
              + (IF StoreView[last'.req.device.id] = None THEN 1 ELSE 0)
       /\ last'.req.present = (StoreView[last'.req.device.id] # None)]_vars

\* C16 witness: a create for an identifier already present replaced a device
\* of another name while a second record stayed.
C16_Witness ==
  /\ last.op = "repo_create"
  /\ last.req.present
  /\ StoreView[last.req.device.id] = Some(last.req.device)
  /\ \E k \in 1..Len(held) :
       /\ held[k].by = "list"
       /\ heap[held[k].addr] # None
       /\ heap[held[k].addr][1].id = last.req.device.id
       /\ heap[held[k].addr][1].name # last.req.device.name
  /\ \E j \in Ids \ {last.req.device.id} : StoreView[j] # None

(***************************************************************************)
(* Properties of the toolchain runner.                                     *)
(***************************************************************************)
\* The failure a message stands for.
ErrorKind(msg) ==
  CASE msg = <<>> -> "Unknown"
    [] msg[1] \in {"PlatformIO not found. Please install PlatformIO: ",
                   "PlatformIO installation check failed"} -> "ToolchainUnavailable"
    [] msg[1] \in {"PlatformIO command failed: ",
                   "Failed to execute platformio command: "} -> "CommandFailed"
    [] msg[1] \in {"Failed to create project directory: ",
                   "Failed to create src directory: ",
                   "Failed to write main.cpp: "} -> "FilesystemError"
    [] OTHER -> "Unknown"

\* The histories of the toolchain operations in progress and just returned.
RunHistories == {run[t] : t \in Tasks} \cup {last.run}

\* The probe of the operation with history h failed.
ProbeFailed(h) == h.probe \in {"nostart", "nonzero"}

\* C7: a toolchain operation whose version probe cannot start or exits non-zero
\* fails with ToolchainUnavailable and leaves the filesystem as it found it.
C7_UnavailableNoMutation ==
  (last.op \in RunnerOps /\ ProbeFailed(last.run)) =>
    /\ ~last.ret.ok
    /\ ErrorKind(last.ret.err) = "ToolchainUnavailable"
    /\ fs = last.run.fs0

\* C8: an action subprocess is spawned only as the second subprocess of its
\* operation, after that operation's version probe exited with success; after
\* a failed probe the operation spawns nothing more.
C8_ActionOnlyAfterProbe ==
  \A h \in RunHistories :
    /\ \A k \in 1..Len(h.spawned) :
         h.spawned[k] # VersionArgs =>
           /\ k = 2
           /\ h.spawned[1] = VersionArgs
           /\ h.probe = "ok"
    /\ ProbeFailed(h) => Len(h.spawned) <= 1 /\ h.exit = <<>>

\* C8 witness: init_project spawned its action after a successful probe.
C8_Witness ==
  /\ last.op = "init_project"
  /\ last.run.probe = "ok"
  /\ last.run.spawned = <<VersionArgs, <<"project", "init", "--board", "esp32dev">>>>

\* C9 as stated: on a non-zero exit the failure carries exactly stdout followed
\* by stderr, with nothing before, between or after them.
C9_FailureIsBareConcatenation ==
  (last.op \in RunnerOps /\ last.run.exit # <<>> /\ last.run.exit[1] # 0) =>
    /\ ~last.ret.ok
    /\ ErrorKind(last.ret.err) = "CommandFailed"
    /\ last.ret.err = Utf8Lossy(last.run.stdout) \o Utf8Lossy(last.run.stderr)

\* C9 (amended): on a non-zero exit the operation fails with CommandFailed and
\* its message is "PlatformIO command failed: ", the captured stdout, a newline
\* and the captured stderr, each stream decoded as UTF-8 with invalid bytes
\* replaced.
C9_FailureMessage ==
  (last.op \in RunnerOps /\ last.run.exit # <<>> /\ last.run.exit[1] # 0) =>
    /\ ~last.ret.ok
    /\ ErrorKind(last.ret.err) = "CommandFailed"
    /\ last.ret.err = <<"PlatformIO command failed: ">> \o Utf8Lossy(last.run.stdout)
                        \o <<"\n">> \o Utf8Lossy(last.run.stderr)

\* C9 witness: an action that wrote to both streams exited with status 1.
C9_Witness ==
  /\ last.op \in RunnerOps
  /\ last.run.exit = <<1>>
  /\ last.run.stdout # <<>>
  /\ last.run.stderr # <<>>
  /\ ~last.ret.ok

\* C10: after a successful probe the operation succeeds exactly when its action
\* subprocess exited with status zero, whatever the streams hold.
C10_SuccessIffExitZero ==
  (last.op \in RunnerOps /\ last.run.probe = "ok") =>
    (last.ret.ok <=> last.run.exit = <<0>>)

\* C10 witness: an action that wrote to stderr and exited with status zero
\* succeeded.
C10_Witness ==
  /\ last.op \in RunnerOps
  /\ last.run.probe = "ok"
  /\ last.run.exit = <<0>>
  /\ last.run.stderr # <<>>
  /\ last.ret.ok

\* C11: when the action subprocess exits with status zero the operation
\* succeeds and its result is the captured stdout followed by the captured
\* stderr, as one string, each stream decoded as UTF-8 with invalid bytes
\* replaced, and nothing before, between or after them.
C11_SuccessIsConcatenation ==
  (last.op \in RunnerOps /\ last.run.exit = <<0>>) =>
    /\ last.ret.ok
    /\ last.ret.val = Utf8Lossy(last.run.stdout) \o Utf8Lossy(last.run.stderr)
    /\ Len(last.ret.val) = Len(Utf8Lossy(last.run.stdout)) + Len(Utf8Lossy(last.run.stderr))

\* C11 witness: an action that wrote different text to the two streams exited
\* with status zero.
C11_Witness ==
  /\ last.op \in RunnerOps
  /\ last.run.exit = <<0>>
  /\ last.run.stdout = <<"a">>
  /\ last.run.stderr = <<"0xC3", "0xA9">>
  /\ last.ret = Ok(<<"a", "e-acute">>)

\* C12: init_project has created the project directory and its missing parents
\* before it spawns any toolchain subprocess (version probe or project init);
\* if the directory could not be created it fails with a filesystem error and
\* has spawned no subprocess at all.
C12_DirectoryBeforeToolchain ==
  /\ \A t \in Tasks :
       (req[t].op = "init_project" /\ run[t].spawned # <<>>) =>
         DirChain(req[t].path) \subseteq fs.dirs
  /\ last.op = "init_project" =>
       /\ last.run.spawned # <<>> => DirChain(last.req.path) \subseteq fs.dirs
       /\ last.req.path \notin fs.dirs =>
            /\ ~last.ret.ok
            /\ ErrorKind(last.ret.err) = "FilesystemError"
            /\ last.run.spawned = <<>>
       /\ (~last.ret.ok /\ ErrorKind(last.ret.err) = "FilesystemError") =>
            last.run.spawned = <<>>

\* C12 witness: init_project on a path that did not exist, with no parent
\* either, created both and then spawned the probe and the project init.
C12_Witness ==
  /\ last.op = "init_project"
  /\ last.run.fs0.dirs = {}
  /\ DirChain(last.req.path) \subseteq fs.dirs
  /\ Len(last.run.spawned) = 2

\* C13: a create_basic_main(path) that succeeds leaves <path>/src/main.cpp
\* holding exactly the fixed template, whether the file was missing, held
\* something else or already held the template, and changes no other file; run
\* on its own result it changes nothing at all.
C13_CreateMainIdempotent ==
  (last.op = "create_basic_main" /\ last.ret.ok) =>
    /\ last.req.path \o "/src/main.cpp" \in DOMAIN fs.files
    /\ fs.files[last.req.path \o "/src/main.cpp"] = MainCppContent
    /\ DOMAIN fs.files = DOMAIN last.run.fs0.files \cup {last.req.path \o "/src/main.cpp"}
    /\ \A q \in DOMAIN last.run.fs0.files :
         q # last.req.path \o "/src/main.cpp" => fs.files[q] = last.run.fs0.files[q]
    /\ ( /\ last.req.path \o "/src/main.cpp" \in DOMAIN last.run.fs0.files
         /\ last.run.fs0.files[last.req.path \o "/src/main.cpp"] = MainCppContent )
       => fs = last.run.fs0

\* C13 witness: create_basic_main succeeded where main.cpp held something else
\* and another file existed beside it.
C13_Witness ==
  /\ last.op = "create_basic_main"
  /\ last.ret.ok
  /\ "/lab/p1/platformio.ini" \in DOMAIN last.run.fs0.files
  /\ "/lab/p1/src/main.cpp" \in DOMAIN last.run.fs0.files
  /\ last.run.fs0.files["/lab/p1/src/main.cpp"] = OtherContent
  /\ fs.files["/lab/p1/src/main.cpp"] = MainCppContent

(***************************************************************************)
(* Properties of the firmware handlers.                                    *)
(***************************************************************************)
\* The registered device the {id} of the request path names, if any.
PathDevice(h) == IF h.path[1] = "uuid" THEN store[h.path[2]] ELSE None
\* The registered device the request names to its handler: by the JSON body
\* in build, upload and init, by the path in clean and create-main.
NamedDevice(h) ==
  IF h.route \in {"build", "upload", "init"} THEN store[h.device_id[1]] ELSE PathDevice(h)

\* C17: a build, upload or init request acts on the device its path names: it
\* answers 404 exactly when no device with the path's id is registered, and
\* when it runs the toolchain it runs it in that device's project_path.
C17_ActsOnPathDevice ==
  (last.http # NoResp /\ last.req.http.route \in {"build", "upload", "init"}) =>
    /\ last.http.status = 404 <=> PathDevice(last.req.http) = None
    /\ last.op \in RunnerOps =>
         /\ PathDevice(last.req.http) # None
         /\ PathDevice(last.req.http)[1].project_path = Some(last.req.path)

\* C18: a firmware request that names a registered device without project
\* path is answered 400, and in that request no subprocess is spawned and no
\* directory or file is created.
C18_BareDeviceRejected ==
  ( /\ last.http # NoResp
    /\ NamedDevice(last.req.http) # None
    /\ NamedDevice(last.req.http)[1].project_path = None )
  => /\ last.http.status = 400
     /\ ~last.http.success
     /\ last.op = "handle"
     /\ last.run.spawned = <<>>
     /\ fs = last.run.fs0

\* C18 witness: an init request for a registered bare device was answered 400
\* while a configured device is registered as well.
C18_Witness ==
  /\ last.http.status = 400
  /\ last.req.http.route = "init"
  /\ NamedDevice(last.req.http) # None
  /\ NamedDevice(last.req.http)[1].project_path = None
  /\ \E i \in Ids : store[i] # None /\ store[i][1].project_path # None

\* C19: nothing is retried. An operation spawns the version probe at most once,
\* as its first subprocess, and its action command at most once, as its second;
\* a failure ends it with nothing spawned afterwards; and the step that ends
\* it delivers its one result, which the handler turns into one response: 200
\* for success, 500 for failure.
C19_NoRetries ==
  /\ \A t \in Tasks :
       /\ Len(run[t].spawned) <= 2
       /\ \A k \in 1..Len(run[t].spawned) : run[t].spawned[k] = VersionArgs <=> k = 1
       /\ req[t].op \in RunnerOps => pc[t] # "idle"
       /\ pc[t] = "idle" => run[t] = NoRun /\ req[t] = NoReq
  /\ last.op \in RunnerOps =>
       /\ Len(last.run.spawned) <= 2
       /\ \A k \in 1..Len(last.run.spawned) : last.run.spawned[k] = VersionArgs <=> k = 1
       /\ Len(last.run.spawned) = 2 => last.run.spawned[2] = PioArgs(last.req)
       /\ last.run.probe # "ok" => ~last.ret.ok /\ Len(last.run.spawned) <= 1
       /\ last.run.exit # <<>> => Len(last.run.spawned) = 2
       /\ last.http.status = IF last.ret.ok THEN 200 ELSE 500
       /\ last.http.success = last.ret.ok

\* C19 witness: a build whose action exited with status 1 after one probe and
\* one action was answered 500.
C19_Witness ==
  /\ last.op = "build_project"
  /\ last.run.spawned = <<VersionArgs, <<"run">>>>
  /\ last.run.exit = <<1>>
  /\ ~last.ret.ok
  /\ last.http.status = 500

\* C20: under fair scheduling every store call returns, whatever the other
\* tasks do and even if a toolchain subprocess never exits.
C20_StoreCallsReturn == \A t \in Tasks : InStoreCall(t) ~> ~InStoreCall(t)
\* A writer is queued behind a reader that holds its guard.
C20_Witness ==
  \E t \in Tasks : waitq # <<>> /\ Head(waitq) = t /\ WaitsForWrite(t) /\ rlock # {}

\* The subprocesses of the operation with history h that were started and have
\* not exited.
ProbeRunning(h) == Len(h.spawned) >= 1 /\ h.probe = "none"
ActionRunning(h) == Len(h.spawned) = 2 /\ h.exit = <<>>

\* C21: a toolchain operation that has returned has no subprocess still
\* running, and a task whose subprocess is running moves on only in the step
\* in which that subprocess exits: nothing else (no timeout, no cancellation)
\* ends the wait.
C21_ReturnsAfterExit ==
  /\ [](last.op \in RunnerOps => ~ProbeRunning(last.run) /\ ~ActionRunning(last.run))
  /\ [][\A t \in Tasks :
          /\ ProbeRunning(run[t]) /\ pc'[t] # pc[t] =>
               IF pc'[t] = "idle" THEN last'.run.probe # "none"
                                  ELSE run'[t].probe # "none"
          /\ ActionRunning(run[t]) /\ pc'[t] # pc[t] =>
               pc'[t] = "idle" /\ last'.run.exit # <<>>]_vars

\* C21 witness: clean_project returned once its action subprocess had exited.
C21_Witness ==
  /\ last.op = "clean_project"
  /\ last.run.spawned = <<VersionArgs, <<"run", "--target", "clean">>>>
  /\ last.run.exit = <<0>>
  /\ last.ret.ok

\* Task t runs an action subprocess in the project directory p.
ActionRunsIn(t, p) == pc[t] = "action_wait" /\ req[t].path = p

\* C22: the runner has no mutual exclusion: a task about to start its action
\* subprocess in an existing project directory can start it whatever the other
\* tasks are running, in another directory or in the same one.
C22_NotSerialized ==
  \A t \in Tasks :
    pc[t] = "action_spawn" /\ req[t].path \in fs.dirs =>
      ENABLED (ActionSpawn(t) /\ pc'[t] = "action_wait")

\* C22 witness: two action subprocesses run at once in the same project
\* directory.
C22_Witness ==
  \E t \in Tasks : \E u \in Tasks \ {t} :
    ActionRunsIn(t, "/lab/p1") /\ ActionRunsIn(u, "/lab/p1")

\* Two action subprocesses run at once in different project directories.
ConcurrentInDifferentPaths ==
  \E t \in Tasks : \E u \in Tasks \ {t} :
    ActionRunsIn(t, "/lab/p1") /\ ActionRunsIn(u, "/lab/p2")

\* Task t is inside a PlatformIOService operation: at a filesystem call, or
\* starting or awaiting a subprocess.
InToolchainCall(t) ==
  pc[t] \in {"init_mkdir", "probe_spawn", "probe_wait", "action_spawn", "action_wait",
             "main_mkdir", "main_write"}
\* The tasks that hold a guard of the store.
GuardHolders == rlock \cup (IF wlock = NoTask THEN {} ELSE {wlock})

\* C23: no task holds a guard of the store while it is inside a toolchain
\* operation, and a create that waits while every other task is idle or inside
\* a toolchain operation gets the write guard.
C23_NoGuardAcrossToolchain ==
  /\ \A t \in Tasks : InToolchainCall(t) => t \notin GuardHolders
  /\ \A w \in Tasks :
       (/\ WaitsForWrite(w)
        /\ \A u \in Tasks \ {w} : pc[u] = "idle" \/ InToolchainCall(u))
         => ENABLED RepoCreateInsertBegin(w)

\* C23 witness: a create waits for the write guard while another task awaits
\* its action subprocess.
C23_Witness ==
  \E w \in Tasks : \E u \in Tasks \ {w} :
    WaitsForWrite(w) /\ pc[u] = "action_wait"

\* C24: a create that produces a bare device returns and stores it with the
\* supplied name and an empty board_id, whatever board_id was supplied; a
\* stored or returned board_id that differs from the empty one belongs to a
\* configured device.
C24_BareDeviceDropsBoardId ==
  last.op = "create" =>
    /\ last.ret.ok
    /\ MapGet(store, last.ret.val.id) = Some(last.ret.val)
    /\ last.ret.val.name = last.req.name
    /\ last.ret.val.board_type = None \/ last.ret.val.project_path = None =>
         last.ret.val.board_id = ""
    /\ last.ret.val.board_id # "" =>
         /\ last.ret.val.board_id = last.req.board_id
         /\ last.ret.val.board_type # None
         /\ last.ret.val.project_path # None

\* C24 witness: a create with board_id "b1" and a project path but no board
\* type returned a bare device with an empty board_id.
C24_Witness ==
  /\ last.op = "create"
  /\ last.req.board_id = "b1"
  /\ last.req.board_type = None
  /\ last.req.project_path # None
  /\ last.ret.ok
  /\ last.ret.val.board_id = ""
  /\ last.ret.val.name = last.req.name

\* C25: create_basic_main starts no subprocess, neither the version probe nor
\* an action, so the toolchain has no part in its outcome: it is at a
\* filesystem call until it returns, a success leaves the template in
\* <path>/src/main.cpp and is answered 200, and a failure is a filesystem error
\* answered 500.
C25_CreateMainWithoutToolchain ==
  /\ \A t \in Tasks :
       req[t].op = "create_basic_main" =>
         /\ pc[t] \in {"main_mkdir", "main_write"}
         /\ run[t].spawned = <<>>
         /\ run[t].probe = "none"
  /\ last.op = "create_basic_main" =>
       /\ last.run.spawned = <<>>
       /\ last.run.probe = "none"
       /\ last.run.exit = <<>>
       /\ IF last.ret.ok
            THEN /\ MainPath(SrcDir(last.req.path)) \in DOMAIN fs.files
                 /\ fs.files[MainPath(SrcDir(last.req.path))] = MainCppContent
                 /\ last.http.status = 200
            ELSE /\ ErrorKind(last.ret.err) = "FilesystemError"
                 /\ last.http.status = 500

\* C25 witness: create_basic_main succeeded on a filesystem where the toolchain
\* never ran and no project directory existed.
C25_Witness ==
  /\ last.op = "create_basic_main"
  /\ last.ret.ok
  /\ last.run.fs0 = EmptyFs
  /\ fs.tool = {}
  /\ fs.files[MainPath(SrcDir(last.req.path))] = MainCppContent
  /\ last.http.output = <<"Basic main.cpp created successfully">>
====
